---- MODULE Spec2Model ----
(***************************************************************************)
(* The blvdiff VS Code extension: the diff command (history lookup,        *)
(* snapshot extraction, temporary artifacts, dispatch) of the three        *)
(* extension.js files of the repository.                                   *)
(*                                                                         *)
(* Texts (file names, file contents, editor buffers) are sequences of      *)
(* lexemes: a file name is a sequence of characters, a file content a      *)
(* sequence of JSON lexemes and words.  A JavaScript value is a record     *)
(* [t, v, f]: its type tag, its text payload and, for an object, its own   *)
(* properties.                                                             *)
(***************************************************************************)
EXTENDS Integers, Sequences, FiniteSets, TLC

VARIABLES
  variant,    \* which extension.js is loaded
  files,      \* the history root: a set of [dir, name, mtime, raw, broken]
  listable,   \* the partitions of the history root that readdir can list
  doc,        \* vscode.window.activeTextEditor (NoEditor or a document)
  tmp,        \* os.tmpdir(): file name -> content
  inv,        \* the command invocations: position and locals of each
  output,     \* the BLVDIFF output channel
  procs       \* the processes spawned so far

vars == <<variant, files, listable, doc, tmp, inv, output, procs>>

----------------------------------------------------------------------------
\* Bounds of the model.

MaxInvocations == 2
MaxRawLen == 3
MaxTime == 2
MaxFiles == 2
MaxChunks == 1

----------------------------------------------------------------------------
\* The three source files.

Extension == "extension.js"
Part000 == "part_000"
Part001 == "part_001"
Variants == {Extension, Part000, Part001}

----------------------------------------------------------------------------
\* Strings.

StartsWith(s, p) == Len(s) >= Len(p) /\ SubSeq(s, 1, Len(p)) = p

EndsWith(s, p) == Len(s) >= Len(p) /\ SubSeq(s, Len(s) - Len(p) + 1, Len(s)) = p

DotPy == <<".", "p", "y">>
DotJson == <<".", "j", "s", "o", "n">>
DotIpynb == <<".", "i", "p", "y", "n", "b">>
Underscore == <<"_">>

\* scriptName.replace(/\.py$/, '')
StripPy(scriptName) ==
  IF EndsWith(scriptName, DotPy)
  THEN SubSeq(scriptName, 1, Len(scriptName) - Len(DotPy))
  ELSE scriptName

----------------------------------------------------------------------------
\* JavaScript values.

NoFields == [k \in {} |-> k]

Str(s) == [t |-> "string", v |-> s, f |-> NoFields]
Num(s) == [t |-> "number", v |-> s, f |-> NoFields]
Bool(s) == [t |-> "boolean", v |-> <<s>>, f |-> NoFields]
Null == [t |-> "null", v |-> <<>>, f |-> NoFields]
Undefined == [t |-> "undefined", v |-> <<>>, f |-> NoFields]
Arr == [t |-> "array", v |-> <<>>, f |-> NoFields]
Obj(fields) == [t |-> "object", v |-> <<>>, f |-> fields]

\* if (x): ToBoolean.
Truthy(x) ==
  CASE x.t = "string" -> x.v # <<>>
    [] x.t = "number" -> x.v # <<"0">>
    [] x.t = "boolean" -> x.v = <<"true">>
    [] x.t \in {"null", "undefined"} -> FALSE
    [] OTHER -> TRUE

\* typeof x === 'string'
IsString(x) == x.t = "string"

\* obj.key: throws a TypeError on null, is undefined where no such property.
Throws(x) == x.t \in {"null", "undefined"}

Prop(x, key) ==
  IF x.t = "object" /\ key \in DOMAIN x.f THEN x.f[key] ELSE Undefined

----------------------------------------------------------------------------
\* JSON.parse over lexemes.  DQ is the double quote, LF a line feed, BSN the
\* escape sequence backslash-n; a digit, a literal (true, false, null), a
\* punctuation mark or a word (content, text, a, b) is one lexeme.

DQ == "dq"
LF == "lf"
BSN == "bs_n"
Digits == {"0", "5"}
Lexemes ==
  {DQ, LF, BSN, "{", "}", "[", "]", ":", ",", "true", "null", "a"} \cup Digits

ParseFail == [ok |-> FALSE, val |-> Undefined, next |-> 0]
ParseOk(x, n) == [ok |-> TRUE, val |-> x, next |-> n]

Put(fields, k, x) ==
  [n \in DOMAIN fields \cup {k} |-> IF n = k THEN x ELSE fields[n]]

RECURSIVE SkipWs(_, _)
SkipWs(t, i) == IF i <= Len(t) /\ t[i] = LF THEN SkipWs(t, i + 1) ELSE i

\* The characters of a string literal, from the one after its opening quote.
RECURSIVE ScanString(_, _, _)
ScanString(t, i, acc) ==
  IF i > Len(t) THEN ParseFail
  ELSE IF t[i] = DQ THEN ParseOk(Str(acc), i + 1)
  ELSE IF t[i] = LF THEN ParseFail
  ELSE IF t[i] = BSN THEN ScanString(t, i + 1, Append(acc, LF))
  ELSE ScanString(t, i + 1, Append(acc, t[i]))

RECURSIVE ScanDigits(_, _)
ScanDigits(t, i) ==
  IF i <= Len(t) /\ t[i] \in Digits THEN ScanDigits(t, i + 1) ELSE i

\* A number: 0, or a non-zero digit and then digits.
ScanNumber(t, i) ==
  LET j == IF t[i] = "0" THEN i + 1 ELSE ScanDigits(t, i)
  IN ParseOk(Num(SubSeq(t, i, j - 1)), j)

RECURSIVE ParseValue(_, _)
RECURSIVE ParseElements(_, _, _)
RECURSIVE ParseMembers(_, _, _, _)

ParseValue(t, i) ==
  IF i > Len(t) THEN ParseFail
  ELSE IF t[i] = DQ THEN ScanString(t, i + 1, <<>>)
  ELSE IF t[i] \in Digits THEN ScanNumber(t, i)
  ELSE IF t[i] \in {"true", "false"} THEN ParseOk(Bool(t[i]), i + 1)
  ELSE IF t[i] = "null" THEN ParseOk(Null, i + 1)
  ELSE IF t[i] = "[" THEN ParseElements(t, SkipWs(t, i + 1), TRUE)
  ELSE IF t[i] = "{" THEN ParseMembers(t, SkipWs(t, i + 1), NoFields, TRUE)
  ELSE ParseFail

ParseElements(t, i, first) ==
  IF i > Len(t) THEN ParseFail
  ELSE IF first /\ t[i] = "]" THEN ParseOk(Arr, i + 1)
  ELSE
    LET r == ParseValue(t, i)
    IN IF ~r.ok THEN ParseFail
       ELSE
         LET j == SkipWs(t, r.next)
         IN IF j > Len(t) THEN ParseFail
            ELSE IF t[j] = "]" THEN ParseOk(Arr, j + 1)
            ELSE IF t[j] = "," THEN ParseElements(t, SkipWs(t, j + 1), FALSE)
            ELSE ParseFail

ParseMembers(t, i, fields, first) ==
  IF i > Len(t) THEN ParseFail
  ELSE IF first /\ t[i] = "}" THEN ParseOk(Obj(fields), i + 1)
  ELSE IF t[i] # DQ THEN ParseFail
  ELSE
    LET k == ScanString(t, i + 1, <<>>)
    IN IF ~k.ok THEN ParseFail
       ELSE
         LET j == SkipWs(t, k.next)
         IN IF j > Len(t) \/ t[j] # ":" THEN ParseFail
            ELSE
              LET r == ParseValue(t, SkipWs(t, j + 1))
              IN IF ~r.ok THEN ParseFail
                 ELSE
                   LET fs == Put(fields, k.val.v, r.val)
                       m == SkipWs(t, r.next)
                   IN IF m > Len(t) THEN ParseFail
                      ELSE IF t[m] = "}" THEN ParseOk(Obj(fs), m + 1)
                      ELSE IF t[m] = ","
                        THEN ParseMembers(t, SkipWs(t, m + 1), fs, FALSE)
                      ELSE ParseFail

\* JSON.parse(raw): ok is FALSE where it throws a SyntaxError.
JSONparse(raw) ==
  LET r == ParseValue(raw, SkipWs(raw, 1))
  IN IF r.ok /\ SkipWs(raw, r.next) > Len(raw) THEN r ELSE ParseFail

----------------------------------------------------------------------------
\* The Content Extractor.

ContentKey == <<"content">>
TextKey == <<"text">>

\* getHistory probing text before content.
getHistory_TextFirst(raw) ==
  LET p == JSONparse(raw)
      obj == p.val
  IN IF ~p.ok THEN Str(raw)
     ELSE IF IsString(obj) THEN obj
     ELSE IF Throws(obj) THEN Str(raw)
     ELSE IF Truthy(Prop(obj, TextKey)) THEN Prop(obj, TextKey)
     ELSE IF Truthy(Prop(obj, ContentKey)) THEN Prop(obj, ContentKey)
     ELSE Str(raw)

\* getHistory testing the string for truth: if (obj && typeof obj === 'string').
getHistory_TruthyString(raw) ==
  LET p == JSONparse(raw)
      obj == p.val
  IN IF ~p.ok THEN Str(raw)
     ELSE IF IsString(obj) /\ Truthy(obj) THEN obj
     ELSE IF Throws(obj) THEN Str(raw)
     ELSE IF Truthy(Prop(obj, ContentKey)) THEN Prop(obj, ContentKey)
     ELSE IF Truthy(Prop(obj, TextKey)) THEN Prop(obj, TextKey)
     ELSE Str(raw)

\* getHistory whose catch returns '' and not raw.
getHistory_EmptyOnError(raw) ==
  LET p == JSONparse(raw)
      obj == p.val
  IN IF ~p.ok THEN Str(<<>>)
     ELSE IF IsString(obj) THEN obj
     ELSE IF Throws(obj) THEN Str(<<>>)
     ELSE IF Truthy(Prop(obj, ContentKey)) THEN Prop(obj, ContentKey)
     ELSE IF Truthy(Prop(obj, TextKey)) THEN Prop(obj, TextKey)
     ELSE Str(raw)

\* getHistory of extension.js and part_000, after the read of raw.
getHistory(raw) ==
  LET p == JSONparse(raw)
      obj == p.val
  IN IF ~p.ok THEN Str(raw)
     ELSE IF IsString(obj) THEN obj
     ELSE IF Throws(obj) THEN Str(raw)
     ELSE IF Truthy(Prop(obj, ContentKey)) THEN Prop(obj, ContentKey)
     ELSE IF Truthy(Prop(obj, TextKey)) THEN Prop(obj, TextKey)
     ELSE Str(raw)

\* readHistoricalContent of part_001, after the read of raw.
readHistoricalContent(raw) ==
  LET p == JSONparse(raw)
      obj == p.val
  IN IF ~p.ok THEN Str(raw)
     ELSE IF IsString(obj) THEN obj
     ELSE IF Throws(obj) THEN Str(raw)
     ELSE IF Truthy(Prop(obj, ContentKey)) THEN Prop(obj, ContentKey)
     ELSE IF Truthy(Prop(obj, TextKey)) THEN Prop(obj, TextKey)
     ELSE Str(raw)

Extract(v, raw) ==
  IF v = Part001 THEN readHistoricalContent(raw) ELSE getHistory(raw)

----------------------------------------------------------------------------
\* The history root, <home>/blvflag/tool/history, and its partitions.

ErrHistory == "err_history"
StdHistory == "std_history"

\* const dirs = ['err_history', 'std_history']
dirs == <<ErrHistory, StdHistory>>

Path(dir, name) == [dir |-> dir, name |-> name]
NullPath == Path("null", <<>>)

\* path.basename(filePath)
Basename(path) == path.name

\* The names in partition d, as a set.
NamesIn(d) == {r.name : r \in {x \in files : x.dir = d}}

\* The orders in which a directory listing can hand out a set of names.
RECURSIVE Orders(_)
Orders(S) ==
  IF S = {} THEN {<<>>}
  ELSE UNION {{<<x>> \o o : o \in Orders(S \ {x})} : x \in S}

\* fsp.readdir(histDir): the names in some order, or a rejection.
Readdir(d) ==
  IF d \in listable
  THEN {[ok |-> TRUE, names |-> o] : o \in Orders(NamesIn(d))}
  ELSE {[ok |-> FALSE, names |-> <<>>]}

\* One outcome of readdir for each partition.
Listings == {ls \in [{ErrHistory, StdHistory} -> UNION {Readdir(d) : d \in {ErrHistory, StdHistory}}] :
               \A d \in {ErrHistory, StdHistory} : ls[d] \in Readdir(d)}

\* The entry of a listed name.
Entry(d, name) == CHOOSE r \in files : r.dir = d /\ r.name = name

\* fs.statSync(path.join(histDir, f)) throws: the entry is broken (a link
\* to nothing, say), so that neither stat nor read can reach a file.
StatThrows(d, name) == Entry(d, name).broken

\* f.startsWith(baseName + '_') && f.endsWith('.json')
IsMatch(f, baseName) ==
  StartsWith(f, baseName \o Underscore) /\ EndsWith(f, DotJson)

\* files.filter(...)
Matches(names, baseName) == SelectSeq(names, LAMBDA f : IsMatch(f, baseName))

\* The place of x in a list sorted by (a, b) => b.mtime - a.mtime: after
\* every element that is not older (Array.prototype.sort is stable).
RECURSIVE InsertDesc(_, _)
InsertDesc(sorted, x) ==
  IF sorted = <<>> THEN <<x>>
  ELSE IF Head(sorted).mtime >= x.mtime
    THEN <<Head(sorted)>> \o InsertDesc(Tail(sorted), x)
  ELSE <<x>> \o sorted

\* s.sort((a, b) => b.mtime - a.mtime)
RECURSIVE SortDesc(_)
SortDesc(s) ==
  IF s = <<>> THEN <<>>
  ELSE InsertDesc(SortDesc(SubSeq(s, 1, Len(s) - 1)), s[Len(s)])

\* The candidates one partition contributes in findLatest: none when the
\* listing or the stat of any match throws.
PartitionCandidates(d, ls, baseName) ==
  LET m == Matches(ls[d].names, baseName)
  IN IF ~ls[d].ok \/ (\E k \in 1..Len(m) : StatThrows(d, m[k]))
     THEN <<>>
     ELSE [k \in 1..Len(m) |->
             [file |-> Path(d, m[k]), mtime |-> Entry(d, m[k]).mtime]]

\* The candidates findLatest has gathered after its loop over dirs (ops in
\* extension.js, candidates in part_000).
findLatestOps(scriptName, ls) ==
  LET baseName == StripPy(scriptName)
  IN PartitionCandidates(dirs[1], ls, baseName)
       \o PartitionCandidates(dirs[2], ls, baseName)

\* findLatest of extension.js and part_000, given the listings readdir gave.
findLatest(scriptName, ls) ==
  LET ops == findLatestOps(scriptName, ls)
  IN IF Len(ops) = 0 THEN NullPath
     ELSE SortDesc(ops)[1].file

\* The candidates of findLatestHistory of part_001: the matching names of
\* err_history, no modification time attached.
findLatestHistoryCandidates(scriptName, ls) ==
  Matches(ls[ErrHistory].names, StripPy(scriptName))

\* findLatestHistory of part_001: err_history alone; the comparator stats,
\* and is called only when there are two candidates or more.
findLatestHistory(scriptName, ls) ==
  LET candidates == findLatestHistoryCandidates(scriptName, ls)
  IN IF ~ls[ErrHistory].ok THEN NullPath
     ELSE IF Len(candidates) = 0 THEN NullPath
     ELSE IF Len(candidates) >= 2
             /\ \E k \in 1..Len(candidates) : StatThrows(ErrHistory, candidates[k])
       THEN NullPath
     ELSE IF Len(candidates) = 1 THEN Path(ErrHistory, candidates[1])
     ELSE SortDesc([k \in 1..Len(candidates) |->
                      [file |-> Path(ErrHistory, candidates[k]),
                       mtime |-> Entry(ErrHistory, candidates[k]).mtime]])[1].file

Locate(v, scriptName, ls) ==
  IF v = Part001 THEN findLatestHistory(scriptName, ls)
  ELSE findLatest(scriptName, ls)

----------------------------------------------------------------------------
\* The editor, the temporary directory and the external tool.

WorkDir == "workspace"
TmpDir == "tmpdir"

ScriptName == <<"f", ".", "p", "y">>
NotebookName == <<"n">> \o DotIpynb
TempPy == <<"t", "e", "m", "p">> \o DotPy

NoEditor ==
  [editor |-> FALSE, languageId |-> "none", fsPath |-> NullPath, text |-> <<>>]

Document(name, lang, text) ==
  [editor |-> TRUE, languageId |-> lang, fsPath |-> Path(WorkDir, name),
   text |-> text]

\* The buffer texts a user types.
Texts == {<<"a">>, <<"b">>}

\* `${scriptName}.old.py` (extension.js), `${scriptName}.history.old.py`
\* (part_000, part_001) and `${scriptName}.current.py`, under os.tmpdir().
OldSuffix(v) ==
  IF v = Extension THEN <<".", "o", "l", "d">> \o DotPy
  ELSE <<".", "h", "i", "s", "t", "o", "r", "y", ".", "o", "l", "d">> \o DotPy

CurrentSuffix == <<".", "c", "u", "r", "r", "e", "n", "t">> \o DotPy

\* The old file named with a stamp of the moment (how much history there is
\* stands for the time).
oldTmp_Stamped(v, scriptName) ==
  scriptName \o <<".", <<"0", "1", "2", "3", "4", "5">>[Cardinality(files) + 1]>>
    \o OldSuffix(v)

oldTmp(v, scriptName) == scriptName \o OldSuffix(v)

\* The new text written over the old file.
newTmp_Shared(v, scriptName) == scriptName \o OldSuffix(v)

newTmp(v, scriptName) == scriptName \o CurrentSuffix

\* document.languageId === 'python' && document.uri.fsPath.endsWith('.ipynb')
IsNotebook(d) == d.languageId = "python" /\ EndsWith(d.fsPath.name, DotIpynb)

\* The path getScriptPath (extension.js) or editor.document.fileName
\* (part_000, part_001) gives.
ScriptPath(v, d) ==
  IF v = Extension /\ IsNotebook(d) THEN Path(TmpDir, TempPy) ELSE d.fsPath

\* getBinary / resolveBinary: the configured path trimmed, else the bundled
\* binary when it is executable, else 'blvflag' on the PATH.
getBinary(configured, bundledExecutable) ==
  IF configured = "set" THEN "configured"
  ELSE IF bundledExecutable THEN "bundled"
  ELSE "blvflag"

----------------------------------------------------------------------------
\* Invocations of the diff command.

Invocations == 1..MaxInvocations

NoSpawn == [bin |-> "none", args |-> <<>>]
NoView == [left |-> <<>>, right |-> <<>>, leftText |-> <<>>, rightText |-> <<>>]

Idle ==
  [pc |-> "idle", filePath |-> NullPath, scriptName |-> <<>>,
   nbText |-> <<>>, historyPath |-> NullPath, choice |-> "none",
   oldContent |-> Undefined, newContent |-> <<>>,
   info |-> "none", listed |-> {}, readPath |-> NullPath, writes |-> <<>>,
   spawn |-> NoSpawn, view |-> NoView, tmpAtOpen |-> {},
   flag |-> "none", token |-> Undefined]

Finished(i) == inv[i].pc \in {"done", "fault"}

\* What a reader of the temporary file finds.
NoFile == <<"ENOENT">>
ReadTmp(name) == IF name \in DOMAIN tmp THEN tmp[name] ELSE NoFile

\* A write that reaches no file of the temporary directory.
WriteTmp_Dropped(name, text) == tmp' = tmp

\* fsp.writeFile(path.join(os.tmpdir(), name), text, 'utf8')
WriteTmp(name, text) == tmp' = Put(tmp, name, text)

\* The user runs the commands one after the other: a command is invoked
\* when the invocations before it have returned.
InSuccession(i) == \A j \in Invocations : j < i => Finished(j)

\* The command handler up to its first await.  Without an editor it shows
\* the information message and returns.
DiffStart(i) ==
  /\ inv[i].pc = "idle"
  /\ IF ~doc.editor
     THEN inv' = [inv EXCEPT ![i].pc = "done", ![i].info = "noEditor"]
     ELSE IF variant = Extension
       THEN inv' = [inv EXCEPT ![i].pc = "path", ![i].nbText = doc.text]
     ELSE inv' = [inv EXCEPT ![i].pc = "lookup",
                             ![i].filePath = doc.fsPath,
                             ![i].scriptName = Basename(doc.fsPath)]
  /\ UNCHANGED <<variant, files, listable, doc, tmp, output, procs>>

\* await getScriptPath(editor.document) of extension.js: a notebook is
\* written to temp.py in the temporary directory.
DiffGetScriptPath(i) ==
  /\ inv[i].pc = "path"
  /\ LET p == ScriptPath(variant, doc)
     IN /\ IF IsNotebook(doc)
           THEN /\ WriteTmp(TempPy, inv[i].nbText)
                /\ inv' = [inv EXCEPT ![i].pc = "lookup",
                                      ![i].filePath = p,
                                      ![i].scriptName = Basename(p),
                                      ![i].writes = Append(@, TempPy)]
           ELSE /\ tmp' = tmp
                /\ inv' = [inv EXCEPT ![i].pc = "lookup",
                                      ![i].filePath = p,
                                      ![i].scriptName = Basename(p)]
  /\ UNCHANGED <<variant, files, listable, doc, output, procs>>

\* await findLatest(scriptName) / findLatestHistory(scriptName), and the
\* message when it found nothing.
DiffFindLatest(i) ==
  /\ inv[i].pc = "lookup"
  /\ \E ls \in Listings :
       LET h == Locate(variant, inv[i].scriptName, ls)
           searched == IF variant = Part001 THEN {ErrHistory}
                       ELSE {ErrHistory, StdHistory}
       IN inv' = [inv EXCEPT
                    ![i].historyPath = h,
                    ![i].listed = searched,
                    ![i].info = IF h = NullPath THEN "noHistory" ELSE @,
                    ![i].pc = IF h = NullPath THEN "done"
                              ELSE IF variant = Part001 THEN "extract"
                              ELSE "pick"]
  /\ UNCHANGED <<variant, files, listable, doc, tmp, output, procs>>

\* await vscode.window.showQuickPick(['Side-by-side', 'Text-based']): the
\* user picks one, or dismisses it (undefined).
DiffShowQuickPick(i) ==
  /\ inv[i].pc = "pick"
  /\ \E c \in {"undefined", "Side-by-side", "Text-based"} :
       inv' = [inv EXCEPT
                 ![i].choice = c,
                 ![i].pc = IF c = "undefined" THEN "done"
                           ELSE IF c = "Text-based" THEN "binary"
                           ELSE "extract"]
  /\ UNCHANGED <<variant, files, listable, doc, tmp, output, procs>>

\* const proc = spawn(bin, args, { shell: false }): the child process of
\* invocation i before any of its events.  appended counts what its handlers
\* appended to the output channel, stdin is what was done to its input
\* stream, notified the cause shown by showErrorMessage.
Proc(i, bin, args) ==
  [by |-> i, bin |-> bin, args |-> args, state |-> "spawned", code |-> 0,
   chunks |-> 0, appended |-> 0, exitLine |-> FALSE, notified |-> "none",
   stdin |-> <<>>]

\* runBlvDiff(bin, args, output): the channel is cleared and the process
\* spawned.
runBlvDiff(i, bin, args) ==
  /\ output' = <<>>
  /\ procs' = Append(procs, Proc(i, bin, args))

\* The arguments of the explain command.
DiffArgs_Explain(filePath) == <<"--explain", filePath>>

\* ['--diff', filePath]
DiffArgs(filePath) == <<"--diff", filePath>>

\* The text-based branch: await getBinary(context), then
\* runBlvDiff(bin, ['--diff', filePath], output).
DiffTextBased(i) ==
  /\ inv[i].pc = "binary"
  /\ \E configured \in {"unset", "blank", "set"}, exec \in BOOLEAN :
       LET bin == getBinary(configured, exec)
           args == DiffArgs(inv[i].filePath)
       IN /\ runBlvDiff(i, bin, args)
          /\ inv' = [inv EXCEPT ![i].pc = "done",
                                ![i].spawn = [bin |-> bin, args |-> args]]
  /\ UNCHANGED <<variant, files, listable, doc, tmp>>

\* The snapshot at a path.
Snapshot(path) == CHOOSE r \in files : r.dir = path.dir /\ r.name = path.name

\* await getHistory(historyPath) / readHistoricalContent(historyPath), then
\* editor.document.getText().  The read of a broken entry rejects.
DiffGetHistory(i) ==
  /\ inv[i].pc = "extract"
  /\ IF Snapshot(inv[i].historyPath).broken
     THEN inv' = [inv EXCEPT ![i].pc = "fault",
                             ![i].readPath = inv[i].historyPath]
     ELSE inv' = [inv EXCEPT
                    ![i].pc = "writeOld",
                    ![i].readPath = inv[i].historyPath,
                    ![i].oldContent =
                      Extract(variant, Snapshot(inv[i].historyPath).raw),
                    ![i].newContent = doc.text]
  /\ UNCHANGED <<variant, files, listable, doc, tmp, output, procs>>

\* await fsp.writeFile(oldTmp, oldContent, 'utf8'): data that is no string
\* is rejected (ERR_INVALID_ARG_TYPE).
DiffWriteOld(i) ==
  /\ inv[i].pc = "writeOld"
  /\ IF IsString(inv[i].oldContent)
     THEN /\ WriteTmp(oldTmp(variant, inv[i].scriptName), inv[i].oldContent.v)
          /\ inv' = [inv EXCEPT
                       ![i].pc = "writeNew",
                       ![i].writes =
                         Append(@, oldTmp(variant, inv[i].scriptName))]
     ELSE /\ tmp' = tmp
          /\ inv' = [inv EXCEPT ![i].pc = "fault"]
  /\ UNCHANGED <<variant, files, listable, doc, output, procs>>

\* await fsp.writeFile(newTmp, newContent, 'utf8')
DiffWriteNew(i) ==
  /\ inv[i].pc = "writeNew"
  /\ WriteTmp(newTmp(variant, inv[i].scriptName), inv[i].newContent)
  /\ inv' = [inv EXCEPT
               ![i].pc = "open",
               ![i].writes = Append(@, newTmp(variant, inv[i].scriptName))]
  /\ UNCHANGED <<variant, files, listable, doc, output, procs>>

\* await vscode.commands.executeCommand('vscode.diff', left, right, title):
\* the diff view opens on the two files as they are.
DiffOpen(i) ==
  /\ inv[i].pc = "open"
  /\ LET l == oldTmp(variant, inv[i].scriptName)
         r == newTmp(variant, inv[i].scriptName)
     IN inv' = [inv EXCEPT
                  ![i].pc = "done",
                  ![i].view = [left |-> l, right |-> r,
                               leftText |-> ReadTmp(l),
                               rightText |-> ReadTmp(r)],
                  ![i].tmpAtOpen = DOMAIN tmp]
  /\ UNCHANGED <<variant, files, listable, doc, tmp, output, procs>>

----------------------------------------------------------------------------
\* The explain and revert commands: the external tool run on the script.

\* The commands the loaded file registers besides diff
\* (context.subscriptions.push).
Flags(v) == IF v = Extension THEN {"--explain", "--revert"} ELSE {"--explain"}

HasSetup(v) == v # Part001

\* The explain / revert handler up to its first await.
FlagStart(i, flag) ==
  /\ inv[i].pc = "idle"
  /\ flag \in Flags(variant)
  /\ IF ~doc.editor
     THEN inv' = [inv EXCEPT ![i].pc = "done", ![i].flag = flag,
                             ![i].info = "noEditor"]
     ELSE IF variant = Extension
       THEN inv' = [inv EXCEPT ![i].pc = "flagPath", ![i].flag = flag,
                               ![i].nbText = doc.text]
     ELSE inv' = [inv EXCEPT ![i].pc = "flagBinary", ![i].flag = flag,
                             ![i].filePath = doc.fsPath]
  /\ UNCHANGED <<variant, files, listable, doc, tmp, output, procs>>

\* await getScriptPath(editor.document) of the explain / revert handler.
FlagGetScriptPath(i) ==
  /\ inv[i].pc = "flagPath"
  /\ LET p == ScriptPath(variant, doc)
     IN /\ IF IsNotebook(doc)
           THEN /\ WriteTmp(TempPy, inv[i].nbText)
                /\ inv' = [inv EXCEPT ![i].pc = "flagBinary",
                                      ![i].filePath = p,
                                      ![i].writes = Append(@, TempPy)]
           ELSE /\ tmp' = tmp
                /\ inv' = [inv EXCEPT ![i].pc = "flagBinary",
                                      ![i].filePath = p]
  /\ UNCHANGED <<variant, files, listable, doc, output, procs>>

\* await getBinary(context), then runBlvDiff(b, [flag, filePath], output).
FlagRun(i) ==
  /\ inv[i].pc = "flagBinary"
  /\ \E configured \in {"unset", "blank", "set"}, exec \in BOOLEAN :
       LET bin == getBinary(configured, exec)
           args == <<inv[i].flag, inv[i].filePath>>
       IN /\ runBlvDiff(i, bin, args)
          /\ inv' = [inv EXCEPT ![i].pc = "done",
                                ![i].spawn = [bin |-> bin, args |-> args]]
  /\ UNCHANGED <<variant, files, listable, doc, tmp>>

----------------------------------------------------------------------------
\* The setup command: the secret is handed to the external tool on its
\* input stream.

\* What showInputBox resolves to: undefined when dismissed, else the text.
Tokens == {Undefined, Str(<<>>), Str(<<"k">>)}

\* The secret without the newline.
SecretLine_Bare(token) == token

\* authToken + '\n'
SecretLine(token) == token \o <<LF>>

\* proc.stdin.write(line); proc.stdin.end()
StdinWrite(line) == [op |-> "write", data |-> line]
StdinEnd == [op |-> "end", data |-> <<>>]

\* The setup handler up to its await of showInputBox.
SetupStart(i) ==
  /\ inv[i].pc = "idle"
  /\ HasSetup(variant)
  /\ inv' = [inv EXCEPT ![i].pc = "input", ![i].flag = "setup"]
  /\ UNCHANGED <<variant, files, listable, doc, tmp, output, procs>>

\* await showInputBox(...); if (!authToken) { 'Setup cancelled'; return; }
SetupInput(i) ==
  /\ inv[i].pc = "input"
  /\ \E t \in Tokens :
       inv' = [inv EXCEPT
                 ![i].token = t,
                 ![i].info = IF Truthy(t) THEN @ ELSE "setupCancelled",
                 ![i].pc = IF Truthy(t) THEN "setupBinary" ELSE "done"]
  /\ UNCHANGED <<variant, files, listable, doc, tmp, output, procs>>

\* await getBinary(context); output.clear(); spawn(bin, ['setup']); the
\* secret line written to the input stream, and the stream ended.
SetupRun(i) ==
  /\ inv[i].pc = "setupBinary"
  /\ \E configured \in {"unset", "blank", "set"}, exec \in BOOLEAN :
       LET bin == getBinary(configured, exec)
           args == <<"setup">>
       IN /\ output' = <<>>
          /\ procs' = Append(procs,
               [Proc(i, bin, args) EXCEPT
                  !.stdin = <<StdinWrite(SecretLine(inv[i].token.v)), StdinEnd>>])
          /\ inv' = [inv EXCEPT ![i].pc = "done",
                                ![i].spawn = [bin |-> bin, args |-> args]]
  /\ UNCHANGED <<variant, files, listable, doc, tmp>>

----------------------------------------------------------------------------
\* The events of a spawned process and the handlers registered on it.

Pids == 1..MaxInvocations

\* The negated errno spawn fails with: the binary is missing or is not
\* executable.
Errno(cause) == IF cause = "ENOENT" THEN 0 - 2 ELSE 0 - 13

\* The statuses a started process exits with.
ExitCodes == {0, 1}

\* The loaded file registers proc.on('close', ...): part_000 and part_001 do,
\* extension.js does not.
HasCloseHandler(v) == v # Extension

\* A chunk of the output channel, and the process whose handler appended it.
Chunk(k, kind, code) == [from |-> k, kind |-> kind, code |-> code]

\* proc.stdout.on('data', ...) / proc.stderr.on('data', ...):
\* output.append(d.toString()).
ProcData(k) ==
  /\ k \in 1..Len(procs)
  /\ procs[k].state \in {"spawned", "running"}
  /\ procs[k].chunks < MaxChunks
  /\ output' = Append(output, Chunk(k, "data", 0))
  /\ procs' = [procs EXCEPT ![k].state = "running",
                            ![k].chunks = @ + 1,
                            ![k].appended = @ + 1]
  /\ UNCHANGED <<variant, files, listable, doc, tmp, inv>>

\* proc.on('error', err => showErrorMessage(`BLVDIFF error: ${err.message}`)):
\* the process could not be started.
ProcError(k) ==
  /\ k \in 1..Len(procs)
  /\ procs[k].state = "spawned"
  /\ \E cause \in {"ENOENT", "EACCES"} :
       procs' = [procs EXCEPT ![k].state = "failed", ![k].notified = cause]
  /\ UNCHANGED <<variant, files, listable, doc, tmp, inv, output>>

\* The 'close' event, emitted after the process ended or after 'error' when
\* it failed to spawn, and proc.on('close', code => output.appendLine(...)).
ProcClose(k) ==
  /\ k \in 1..Len(procs)
  /\ procs[k].state \in {"spawned", "running", "failed"}
  /\ \E code \in (IF procs[k].state = "failed"
                  THEN {Errno(procs[k].notified)} ELSE ExitCodes) :
       IF HasCloseHandler(variant)
       THEN /\ output' = Append(output, Chunk(k, "exit", code))
            /\ procs' = [procs EXCEPT ![k].state = "closed",
                                      ![k].code = code,
                                      ![k].exitLine = TRUE,
                                      ![k].appended = @ + 1]
       ELSE /\ output' = output
            /\ procs' = [procs EXCEPT ![k].state = "closed",
                                      ![k].code = code]
  /\ UNCHANGED <<variant, files, listable, doc, tmp, inv>>

----------------------------------------------------------------------------
\* The environment: the user edits the buffer; the external recorder, which
\* only ever adds snapshots, records a new one.

EditBuffer ==
  /\ doc.editor
  /\ \E t \in Texts : t # doc.text /\ doc' = [doc EXCEPT !.text = t]
  /\ UNCHANGED <<variant, files, listable, tmp, inv, output, procs>>

Json(name) == name \o DotJson

SnapString ==
  [dir |-> ErrHistory, name |-> Json(<<"f", "_", "1">>), mtime |-> 1,
   raw |-> <<DQ, "a", BSN, DQ>>, broken |-> FALSE]

SnapObject ==
  [dir |-> StdHistory, name |-> Json(<<"f", "_", "2">>), mtime |-> 2,
   raw |-> <<"{", DQ, "text", DQ, ":", DQ, "a", DQ, ",",
             DQ, "content", DQ, ":", DQ, "b", DQ, "}", LF>>,
   broken |-> FALSE]

SnapTemp ==
  [dir |-> ErrHistory, name |-> Json(<<"t", "e", "m", "p", "_", "1">>),
   mtime |-> 1, raw |-> <<"a", "b">>, broken |-> FALSE]

SnapNumber ==
  [dir |-> StdHistory, name |-> Json(<<"f", "_", "3">>), mtime |-> 3,
   raw |-> <<"{", DQ, "content", DQ, ":", "5", "}">>, broken |-> FALSE]

SnapLater ==
  [dir |-> ErrHistory, name |-> Json(<<"f", "_", "4">>), mtime |-> 4,
   raw |-> <<DQ, "b", DQ>>, broken |-> FALSE]

\* What the recorder writes, in this order.
Recordings == <<SnapNumber, SnapLater>>

Recorder ==
  /\ \E k \in 1..Len(Recordings) :
       /\ Recordings[k] \notin files
       /\ \A j \in 1..(k - 1) : Recordings[j] \in files
       /\ files' = files \cup {Recordings[k]}
  /\ UNCHANGED <<variant, listable, doc, tmp, inv, output, procs>>

----------------------------------------------------------------------------
\* The extension at work: the user runs the diff command, one invocation
\* after the other.

NoTmp == [n \in {} |-> <<>>]

Docs ==
  {NoEditor, Document(ScriptName, "python", <<"a">>),
   Document(NotebookName, "python", <<"a">>)}

Init ==
  /\ variant \in Variants
  /\ files \in SUBSET {SnapString, SnapObject, SnapTemp}
  /\ listable \in {{ErrHistory, StdHistory}, {StdHistory}}
  /\ doc \in Docs
  /\ tmp = NoTmp
  /\ inv = [i \in Invocations |-> Idle]
  /\ output = <<>>
  /\ procs = <<>>

Next ==
  \/ \E i \in Invocations : InSuccession(i) /\ DiffStart(i)
  \/ \E i \in Invocations : DiffGetScriptPath(i)
  \/ \E i \in Invocations : DiffFindLatest(i)
  \/ \E i \in Invocations : DiffShowQuickPick(i)
  \/ \E i \in Invocations : DiffTextBased(i)
  \/ \E i \in Invocations : DiffGetHistory(i)
  \/ \E i \in Invocations : DiffWriteOld(i)
  \/ \E i \in Invocations : DiffWriteNew(i)
  \/ \E i \in Invocations : DiffOpen(i)
  \/ EditBuffer
  \/ Recorder

Spec == Init /\ [][Next]_vars

----------------------------------------------------------------------------
\* The Content Extractor over every short snapshot text and over objects
\* with a content and a text property of every kind: the invocation stands
\* before its await of getHistory / readHistoricalContent.

ShortTexts == UNION {[1..n -> Lexemes] : n \in 0..MaxRawLen}

FieldLiterals ==
  {<<DQ, "a", DQ>>, <<DQ, "b", DQ>>, <<DQ, DQ>>, <<"0">>, <<"5">>,
   <<"true">>, <<"false">>, <<"null">>, <<"[", "]">>, <<"[", "0", "]">>,
   <<"{", "}">>, <<"{", DQ, "content", DQ, ":", DQ, "a", DQ, "}">>}

Member(key, literal) == <<DQ, key, DQ, ":">> \o literal

ObjectTexts ==
  {<<"{">> \o Member("content", c) \o <<"}">> : c \in FieldLiterals}
  \cup {<<"{">> \o Member("text", x) \o <<"}">> : x \in FieldLiterals}
  \cup {<<"{">> \o Member("a", x) \o <<"}">> : x \in FieldLiterals}
  \cup {<<"{">> \o Member("content", c) \o <<",">> \o Member("text", x)
          \o <<"}">> : c \in FieldLiterals, x \in FieldLiterals}
  \cup {<<"{">> \o Member("text", x) \o <<",", LF>> \o Member("content", c)
          \o <<"}", LF>> : c \in FieldLiterals, x \in FieldLiterals}
  \cup {<<"{">> \o Member("content", c) \o <<",">> \o Member("content", x)
          \o <<"}">> : c \in FieldLiterals, x \in FieldLiterals}

RawInputs == ShortTexts \cup ObjectTexts

SnapshotOf(raw) ==
  [dir |-> ErrHistory, name |-> Json(<<"f", "_", "1">>), mtime |-> 1,
   raw |-> raw, broken |-> FALSE]

\* The invocation of document d after its lookup found h.
Found(v, d, h) ==
  [Idle EXCEPT !.pc = IF v = Part001 THEN "extract" ELSE "pick",
               !.filePath = ScriptPath(v, d),
               !.scriptName = Basename(ScriptPath(v, d)),
               !.nbText = IF v = Extension THEN d.text ELSE <<>>,
               !.historyPath = h,
               !.listed = IF v = Part001 THEN {ErrHistory}
                          ELSE {ErrHistory, StdHistory}]

InitExtract ==
  /\ variant \in Variants
  /\ \E raw \in RawInputs : files = {SnapshotOf(raw)}
  /\ listable = {ErrHistory, StdHistory}
  /\ doc = Document(ScriptName, "python", <<"a">>)
  /\ tmp = NoTmp
  /\ inv = [i \in Invocations |->
              IF i = 1
              THEN [Found(variant, doc, Path(ErrHistory, Json(<<"f", "_", "1">>)))
                      EXCEPT !.pc = "extract",
                             !.choice = IF variant = Part001 THEN "none"
                                        ELSE "Side-by-side"]
              ELSE Idle]
  /\ output = <<>>
  /\ procs = <<>>

NextExtract ==
  \/ \E i \in Invocations : DiffGetHistory(i)
  \/ \E i \in Invocations : DiffWriteOld(i)

SpecExtract == InitExtract /\ [][NextExtract]_vars

----------------------------------------------------------------------------
\* The History Store Reader and the Latest Selector over every small
\* history root: the invocation stands before its await of findLatest /
\* findLatestHistory.

FindNames ==
  {Json(<<"f", "_", "1">>), Json(<<"f", "_", "2">>), Json(<<"g", "_", "1">>),
   <<"f", "_", "1", ".", "t", "x", "t">>}

FindScripts == {ScriptName, <<"g">> \o DotPy}

Slots == {ErrHistory, StdHistory} \X FindNames

\* The history roots of at most MaxFiles entries, modified at times
\* 1..MaxTime, at most one of them broken.
HistoryRoots ==
  UNION {
    {{[dir |-> x[1], name |-> x[2], mtime |-> m[x], raw |-> <<DQ, "a", DQ>>,
       broken |-> x \in b] : x \in S} :
       m \in [S -> 1..MaxTime], b \in {{}} \cup {{x} : x \in S}} :
    S \in {T \in SUBSET Slots : Cardinality(T) <= MaxFiles}}

\* The invocation of document d at its lookup.
Looking(v, d) ==
  [Idle EXCEPT !.pc = "lookup",
               !.filePath = ScriptPath(v, d),
               !.scriptName = Basename(ScriptPath(v, d)),
               !.nbText = IF v = Extension THEN d.text ELSE <<>>]

InitFind ==
  /\ variant \in Variants
  /\ files \in HistoryRoots
  /\ listable \in SUBSET {ErrHistory, StdHistory}
  /\ \E n \in FindScripts : doc = Document(n, "python", <<"a">>)
  /\ tmp = NoTmp
  /\ inv = [i \in Invocations |-> IF i = 1 THEN Looking(variant, doc) ELSE Idle]
  /\ output = <<>>
  /\ procs = <<>>

NextFind == \E i \in Invocations : DiffFindLatest(i)

SpecFind == InitFind /\ [][NextFind]_vars

----------------------------------------------------------------------------
\* The four commands and the processes they start: the user runs explain,
\* diff, revert and setup one after the other, and the spawned processes
\* write, fail and end on their own, also after the command returned.

InitTool ==
  /\ variant \in Variants
  /\ files \in {{}, {SnapString}}
  /\ listable = {ErrHistory, StdHistory}
  /\ doc \in Docs
  /\ tmp = NoTmp
  /\ inv = [i \in Invocations |-> Idle]
  /\ output = <<>>
  /\ procs = <<>>

NextTool ==
  \/ \E i \in Invocations : InSuccession(i) /\ DiffStart(i)
  \/ \E i \in Invocations : DiffGetScriptPath(i)
  \/ \E i \in Invocations : DiffFindLatest(i)
  \/ \E i \in Invocations : DiffShowQuickPick(i)
  \/ \E i \in Invocations : DiffTextBased(i)
  \/ \E i \in Invocations : DiffGetHistory(i)
  \/ \E i \in Invocations : DiffWriteOld(i)
  \/ \E i \in Invocations : DiffWriteNew(i)
  \/ \E i \in Invocations : DiffOpen(i)
  \/ \E i \in Invocations, flag \in {"--explain", "--revert"} : InSuccession(i) /\ FlagStart(i, flag)
  \/ \E i \in Invocations : FlagGetScriptPath(i)
  \/ \E i \in Invocations : FlagRun(i)
  \/ \E i \in Invocations : InSuccession(i) /\ SetupStart(i)
  \/ \E i \in Invocations : SetupInput(i)
  \/ \E i \in Invocations : SetupRun(i)
  \/ \E k \in Pids : ProcData(k)
  \/ \E k \in Pids : ProcError(k)
  \/ \E k \in Pids : ProcClose(k)

SpecTool == InitTool /\ [][NextTool]_vars

----------------------------------------------------------------------------
\* The four command handlers: an invocation may be made while another one
\* awaits, and the recorder adds snapshots.

NextCommands ==
  \/ \E i \in Invocations : DiffStart(i)
  \/ \E i \in Invocations : DiffGetScriptPath(i)
  \/ \E i \in Invocations : DiffFindLatest(i)
  \/ \E i \in Invocations : DiffShowQuickPick(i)
  \/ \E i \in Invocations : DiffTextBased(i)
  \/ \E i \in Invocations : DiffGetHistory(i)
  \/ \E i \in Invocations : DiffWriteOld(i)
  \/ \E i \in Invocations : DiffWriteNew(i)
  \/ \E i \in Invocations : DiffOpen(i)
  \/ \E i \in Invocations, flag \in {"--explain", "--revert"} : FlagStart(i, flag)
  \/ \E i \in Invocations : FlagGetScriptPath(i)
  \/ \E i \in Invocations : FlagRun(i)
  \/ \E i \in Invocations : SetupStart(i)
  \/ \E i \in Invocations : SetupInput(i)
  \/ \E i \in Invocations : SetupRun(i)
  \/ Recorder

SpecCommands == InitTool /\ [][NextCommands]_vars

----------------------------------------------------------------------------
\* The diff command while its surroundings change under it: a snapshot
\* becomes unreadable (it is removed, or its permissions change) and the
\* user edits the buffer.

Unreadable ==
  /\ \E r \in files :
       /\ ~r.broken
       /\ files' = (files \ {r}) \cup {[r EXCEPT !.broken = TRUE]}
  /\ UNCHANGED <<variant, listable, doc, tmp, inv, output, procs>>

InitFault ==
  /\ variant \in Variants
  /\ files \in {{SnapString}, {SnapString, SnapObject}}
  /\ listable = {ErrHistory, StdHistory}
  /\ doc \in Docs
  /\ tmp = NoTmp
  /\ inv = [i \in Invocations |-> Idle]
  /\ output = <<>>
  /\ procs = <<>>

NextFault ==
  \/ \E i \in Invocations : InSuccession(i) /\ DiffStart(i)
  \/ \E i \in Invocations : DiffGetScriptPath(i)
  \/ \E i \in Invocations : DiffFindLatest(i)
  \/ \E i \in Invocations : DiffShowQuickPick(i)
  \/ \E i \in Invocations : DiffTextBased(i)
  \/ \E i \in Invocations : DiffGetHistory(i)
  \/ \E i \in Invocations : DiffWriteOld(i)
  \/ \E i \in Invocations : DiffWriteNew(i)
  \/ \E i \in Invocations : DiffOpen(i)
  \/ Unreadable
  \/ EditBuffer

SpecFault == InitFault /\ [][NextFault]_vars

----------------------------------------------------------------------------
\* The setup command among runs of the external tool: the user runs explain,
\* revert and setup one after the other, and the processes started write to
\* the output channel.

InitSetup ==
  /\ variant \in {v \in Variants : HasSetup(v)}
  /\ files = {}
  /\ listable = {ErrHistory, StdHistory}
  /\ doc \in Docs
  /\ tmp = NoTmp
  /\ inv = [i \in Invocations |-> Idle]
  /\ output = <<>>
  /\ procs = <<>>

NextSetup ==
  \/ \E i \in Invocations, flag \in {"--explain", "--revert"} :
       InSuccession(i) /\ FlagStart(i, flag)
  \/ \E i \in Invocations : FlagGetScriptPath(i)
  \/ \E i \in Invocations : FlagRun(i)
  \/ \E i \in Invocations : InSuccession(i) /\ SetupStart(i)
  \/ \E i \in Invocations : SetupInput(i)
  \/ \E i \in Invocations : SetupRun(i)
  \/ \E k \in Pids : ProcData(k)

SpecSetup == InitSetup /\ [][NextSetup]_vars

----------------------------------------------------------------------------
\* Overlapping invocations of the diff command on one script: the command
\* is invoked again while an earlier invocation awaits its I/O, the user
\* edits the buffer and the recorder adds snapshots in between.

InitOverlap ==
  /\ variant \in Variants
  /\ files = {SnapString}
  /\ listable = {ErrHistory, StdHistory}
  /\ doc = Document(ScriptName, "python", <<"a">>)
  /\ tmp = NoTmp
  /\ inv = [i \in Invocations |-> Idle]
  /\ output = <<>>
  /\ procs = <<>>

NextOverlap ==
  \/ \E i \in Invocations : DiffStart(i)
  \/ \E i \in Invocations : DiffGetScriptPath(i)
  \/ \E i \in Invocations : DiffFindLatest(i)
  \/ \E i \in Invocations : DiffShowQuickPick(i)
  \/ \E i \in Invocations : DiffTextBased(i)
  \/ \E i \in Invocations : DiffGetHistory(i)
  \/ \E i \in Invocations : DiffWriteOld(i)
  \/ \E i \in Invocations : DiffWriteNew(i)
  \/ \E i \in Invocations : DiffOpen(i)
  \/ EditBuffer
  \/ Recorder

SpecOverlap == InitOverlap /\ [][NextOverlap]_vars

----------------------------------------------------------------------------
\* What the properties below speak of.

\* The invocation has extracted the old text from its snapshot.
Extracted(i) == inv[i].oldContent # Undefined

\* The text of the snapshot file the invocation selected.
RawOf(i) == Snapshot(inv[i].historyPath).raw

\* A property value is empty when it carries nothing: it is absent, null,
\* the empty string, zero or false.
NonEmpty(x) ==
  /\ x.t \notin {"undefined", "null"}
  /\ ~(x.t = "string" /\ Len(x.v) = 0)
  /\ ~(x.t = "number" /\ x.v = <<"0">>)
  /\ ~(x.t = "boolean" /\ x.v = <<"false">>)

\* The property of a parsed value, Undefined where it has none.
Field(x, key) ==
  IF x.t = "object" /\ key \in DOMAIN x.f THEN x.f[key] ELSE Undefined

\* raw is one JSON string literal: a quote, characters none of which is a
\* quote or a bare line feed, a quote.
IsStringLiteral(raw) ==
  /\ Len(raw) >= 2
  /\ raw[1] = DQ
  /\ raw[Len(raw)] = DQ
  /\ \A k \in 2..(Len(raw) - 1) : raw[k] \notin {DQ, LF}

\* The string a literal denotes: its characters, each escape replaced by
\* the character it stands for.
Decoded(raw) ==
  [k \in 1..(Len(raw) - 2) |-> IF raw[k + 1] = BSN THEN LF ELSE raw[k + 1]]

\* C5: for a snapshot that parses to an object, a non-empty content property
\* is what the extractor returns, whether or not there is a text property;
\* the text property is returned only when content is absent or empty (and
\* then it is, when it is non-empty itself).
C5_ContentPriority ==
  \A i \in Invocations :
    Extracted(i) =>
      LET p == JSONparse(RawOf(i))
          c == Field(p.val, ContentKey)
          x == Field(p.val, TextKey)
          res == inv[i].oldContent
      IN (p.ok /\ p.val.t = "object") =>
           /\ NonEmpty(c) => res = c
           /\ (~NonEmpty(c) /\ NonEmpty(x)) => res = x
           /\ (res = x /\ x # c) => ~NonEmpty(c)

\* C5's case: both properties are there, non-empty and different.
C5_Witness ==
  \E i \in Invocations :
    /\ Extracted(i)
    /\ LET p == JSONparse(RawOf(i))
       IN /\ p.ok /\ p.val.t = "object"
          /\ NonEmpty(Field(p.val, ContentKey))
          /\ NonEmpty(Field(p.val, TextKey))
          /\ Field(p.val, ContentKey) # Field(p.val, TextKey)
          /\ inv[i].oldContent = Field(p.val, ContentKey)

\* C6: for a snapshot that is one JSON string literal, the empty one
\* included, the extractor returns the string it denotes, and not the text
\* of the file.
C6_BareString ==
  \A i \in Invocations :
    (Extracted(i) /\ IsStringLiteral(RawOf(i))) =>
      /\ inv[i].oldContent = Str(Decoded(RawOf(i)))
      /\ inv[i].oldContent # Str(RawOf(i))

\* C6's case: the snapshot is the empty string literal.
C6_Witness ==
  \E i \in Invocations :
    /\ Extracted(i)
    /\ RawOf(i) = <<DQ, DQ>>
    /\ inv[i].oldContent = Str(<<>>)

\* C7: for a snapshot that is no valid JSON, or that parses to an object,
\* array, number, boolean or null with neither a non-empty content nor a
\* non-empty text property, the extractor returns the text of the file.
C7_RawFallback ==
  \A i \in Invocations :
    Extracted(i) =>
      LET p == JSONparse(RawOf(i))
      IN (\/ ~p.ok
          \/ /\ p.val.t \in {"object", "array", "number", "boolean", "null"}
             /\ ~NonEmpty(Field(p.val, ContentKey))
             /\ ~NonEmpty(Field(p.val, TextKey)))
           => inv[i].oldContent = Str(RawOf(i))

\* C7's case: the snapshot is the literal null, whose property lookup throws.
C7_Witness ==
  \E i \in Invocations :
    /\ Extracted(i)
    /\ RawOf(i) = <<"null", LF>>
    /\ inv[i].oldContent = Str(RawOf(i))

\* C8: for every readable snapshot, whatever JSON value it holds, the
\* extractor returns a text, and the write of the old file that follows
\* accepts it.
C8_AlwaysText ==
  \A i \in Invocations :
    /\ Extracted(i) => inv[i].oldContent.t = "string"
    /\ (inv[i].readPath # NullPath /\ ~Snapshot(inv[i].readPath).broken)
         => inv[i].pc # "fault"

\* The invocation has looked for its snapshot.
Looked(i) == inv[i].listed # {}

\* name is <base>_<anything>.json.
NamedFor(name, base) ==
  /\ Len(name) >= Len(base) + 6
  /\ \A k \in 1..Len(base) : name[k] = base[k]
  /\ name[Len(base) + 1] = "_"
  /\ SubSeq(name, Len(name) - 4, Len(name)) = <<".", "j", "s", "o", "n">>

\* The base name of a script: its file name less a trailing .py.
BaseOf(name) ==
  IF Len(name) >= 3 /\ SubSeq(name, Len(name) - 2, Len(name)) = <<".", "p", "y">>
  THEN SubSeq(name, 1, Len(name) - 3)
  ELSE name

\* The snapshots of a script in the partitions P.
SnapshotsIn(P, scriptName) ==
  {r \in files : r.dir \in P /\ NamedFor(r.name, BaseOf(scriptName))}

Partitions == {ErrHistory, StdHistory}

\* C1: when the snapshots of the script in the partitions err_history and
\* std_history (those that can be listed, every entry intact) are not none,
\* the lookup returns one of them, of the greatest modification time among
\* them all, whichever partition it lies in.
C1_LatestOfAll ==
  \A i \in Invocations :
    LET cands == SnapshotsIn(Partitions \cap listable, inv[i].scriptName)
    IN (Looked(i) /\ cands # {} /\ \A r \in cands : ~r.broken) =>
         \E c \in cands :
           /\ inv[i].historyPath = Path(c.dir, c.name)
           /\ \A r \in cands : r.mtime <= c.mtime

\* C4: when one partition cannot be listed and the other holds a snapshot
\* of the script (every entry intact), the lookup returns a snapshot of that
\* other partition and the invocation does not fail.
C4_PartitionSkipped ==
  \A i \in Invocations :
    \A d \in Partitions :
      LET others == Partitions \ {d}
          cands == SnapshotsIn(others \cap listable, inv[i].scriptName)
      IN (Looked(i) /\ d \notin listable /\ cands # {}
            /\ \A r \in cands : ~r.broken) =>
           /\ inv[i].historyPath.dir \in others
           /\ inv[i].pc # "fault"

\* The invocation wrote no file.
NoWrite(i) == inv[i].writes = <<>>

\* C2: for an open document whose script has no snapshot in any partition,
\* the diff command writes no file at any point, and ends with the message
\* that no history was found.
C2_NoHistoryNoWrite ==
  \A i \in Invocations :
    (doc.editor /\ inv[i].pc # "idle"
       /\ SnapshotsIn(Partitions, Basename(doc.fsPath)) = {}) =>
      /\ NoWrite(i)
      /\ Finished(i) => inv[i].info = "noHistory"

\* The invocation chose the text-based mode.
ChoseText(i) == inv[i].choice = "Text-based"

\* C3 as stated: an invocation that chose the text-based mode ends with the
\* external tool spawned on --diff and the script path, having listed no
\* partition and read no snapshot.
C3_TextNoLookup ==
  \A i \in Invocations :
    (ChoseText(i) /\ inv[i].pc = "done") =>
      /\ inv[i].spawn.args = <<"--diff", inv[i].filePath>>
      /\ inv[i].listed = {}
      /\ inv[i].readPath = NullPath

\* C3 as amended: an invocation that chose the text-based mode reads no
\* snapshot, writes neither comparison file and opens no diff view, and
\* ends with the external tool spawned on --diff and the script path; the
\* lookup ran before the choice and found a snapshot.
C3_TextDelegates ==
  \A i \in Invocations :
    ChoseText(i) =>
      /\ inv[i].readPath = NullPath
      /\ ~Extracted(i)
      /\ \A k \in 1..Len(inv[i].writes) : inv[i].writes[k] = TempPy
      /\ inv[i].view = NoView
      /\ Looked(i)
      /\ inv[i].historyPath # NullPath
      /\ inv[i].pc \in {"binary", "done"}
      /\ inv[i].pc = "done" =>
           /\ inv[i].spawn.args = <<"--diff", inv[i].filePath>>
           /\ \E k \in 1..Len(procs) :
                /\ procs[k].by = i
                /\ procs[k].bin = inv[i].spawn.bin
                /\ procs[k].args = <<"--diff", inv[i].filePath>>

\* C3's case: a text-based invocation has spawned the tool.
C3_Witness ==
  \E i \in Invocations :
    ChoseText(i) /\ inv[i].pc = "done" /\ inv[i].spawn # NoSpawn

\* C9: an invocation whose mode selection was dismissed has written no
\* temporary file, started no process, opened no diff view, and has
\* returned.
C9_AbandonNoAction ==
  \A i \in Invocations :
    inv[i].choice = "undefined" =>
      /\ NoWrite(i)
      /\ inv[i].spawn = NoSpawn
      /\ \A k \in 1..Len(procs) : procs[k].by # i
      /\ inv[i].view = NoView
      /\ inv[i].pc = "done"

\* The invocation handed its two files to the diff view.
Dispatched(i) == inv[i].view # NoView

\* The set of the elements of a sequence.
Range(q) == {q[k] : k \in 1..Len(q)}

\* C10: of two side-by-side invocations for the same script, one after the
\* other, the second wrote the very paths the first wrote, the temporary
\* directory holds the same files after it as after the first, and the two
\* files hold the second's old and new text.
C10_SamePaths ==
  \A i, j \in Invocations :
    (i < j /\ Dispatched(i) /\ Dispatched(j)
       /\ inv[i].scriptName = inv[j].scriptName) =>
      /\ Range(inv[j].writes) = Range(inv[i].writes)
      /\ inv[j].tmpAtOpen = inv[i].tmpAtOpen
      /\ inv[j].view.left = inv[i].view.left
      /\ inv[j].view.right = inv[i].view.right
      /\ inv[j].view.leftText = inv[j].oldContent.v
      /\ inv[j].view.rightText = inv[j].newContent

\* C10's case: the second invocation's old and new text both differ from
\* the first's.
C10_Witness ==
  \E i, j \in Invocations :
    /\ i < j /\ Dispatched(i) /\ Dispatched(j)
    /\ inv[i].scriptName = inv[j].scriptName
    /\ inv[i].oldContent # inv[j].oldContent
    /\ inv[i].newContent # inv[j].newContent

----------------------------------------------------------------------------
\* The external tool.

\* The processes spawned so far.
Spawned == 1..Len(procs)

\* Process k could not be started: its 'error' event was delivered.
FailedToStart(k) == procs[k].notified # "none"

\* Process k started and ended with a non-zero status.
ExitedNonZero(k) == procs[k].state = "closed" /\ procs[k].code > 0

\* C11: when the binary cannot be started (it is missing or not executable),
\* the failure is shown as an error notification carrying the cause and
\* nothing is appended to the output channel for that process, an
\* exit-status line included.
C11_SpawnFailureSilent ==
  \A k \in Spawned :
    (procs[k].state = "failed" \/ (procs[k].state = "closed" /\ procs[k].code < 0))
      => /\ procs[k].notified \in {"ENOENT", "EACCES"}
         /\ procs[k].appended = 0
         /\ ~procs[k].exitLine

\* C12: when the process started and ended with a non-zero status, the exit
\* code has been appended to the output channel once its 'close' event was
\* delivered, and no error notification was raised for it.
C12_ExitCodeLogged ==
  \A k \in Spawned :
    ExitedNonZero(k) => procs[k].exitLine /\ procs[k].notified = "none"

----------------------------------------------------------------------------
\* Failures inside the diff flow.

\* C13: every filesystem or decode failure inside the diff flow is absorbed
\* into a recoverable outcome: no invocation of the diff command ends in an
\* unhandled fault, also when the selected snapshot becomes unreadable
\* between selection and extraction.
C13_NoUnhandledFault == \A i \in Invocations : inv[i].pc # "fault"

----------------------------------------------------------------------------
\* The life of a side-by-side invocation.

\* A snapshot was found, both temporary files were written, the old one
\* first, and the view was opened on them, the old file holding the text
\* extracted from the selected snapshot.
FoundWrittenOpened(i) ==
  LET w == inv[i].writes
      n == Len(w)
  IN /\ inv[i].pc = "done"
     /\ inv[i].historyPath # NullPath
     /\ n >= 2
     /\ w[n - 1] = oldTmp(variant, inv[i].scriptName)
     /\ w[n] = newTmp(variant, inv[i].scriptName)
     /\ inv[i].view.left = w[n - 1]
     /\ inv[i].view.right = w[n]
     /\ inv[i].oldContent = Extract(variant, RawOf(i))
     /\ IsString(inv[i].oldContent)
     /\ inv[i].view.leftText = inv[i].oldContent.v

\* The view is opened in this step by invocation i.
Dispatches(i) == inv[i].pc = "open" /\ inv'[i].pc = "done"

\* The lookup of invocation i found nothing.
NotFound(i) == inv[i].info = "noHistory"

\* A step of the diff command for invocation i.
DiffStep(i) ==
  \/ DiffStart(i)
  \/ DiffGetScriptPath(i)
  \/ DiffFindLatest(i)
  \/ DiffShowQuickPick(i)
  \/ DiffTextBased(i)
  \/ DiffGetHistory(i)
  \/ DiffWriteOld(i)
  \/ DiffWriteNew(i)
  \/ DiffOpen(i)

\* Invocation i has no step left.
Terminal(i) == ~ENABLED DiffStep(i)

\* C14 as stated: the view is opened only after a snapshot was found and
\* both temporary files were written, old first; at the moment of dispatch
\* the old file holds the text extracted from the selected snapshot and the
\* new file holds the text of the editor buffer as it is then; NotFound and
\* Dispatched are terminal.
C14_LiveBufferAtDispatch ==
  /\ [](\A i \in Invocations :
          /\ Dispatched(i) => FoundWrittenOpened(i)
          /\ Dispatched(i) \/ NotFound(i) => Terminal(i))
  /\ [][\A i \in Invocations :
          Dispatches(i) => inv'[i].view.rightText = doc.text]_vars

\* C14: the view is opened only after a snapshot was found and both
\* temporary files were written, old first; at the moment of dispatch the
\* old file holds the text extracted from the selected snapshot and the new
\* file holds the buffer text the invocation read right after the
\* extraction, before the two writes; NotFound and Dispatched are terminal.
C14_Lifecycle ==
  \A i \in Invocations :
    /\ Dispatched(i) => /\ FoundWrittenOpened(i)
                        /\ inv[i].view.rightText = inv[i].newContent
    /\ Dispatched(i) \/ NotFound(i) => Terminal(i)
    /\ NotFound(i) => ~Dispatched(i) /\ inv[i].historyPath = NullPath

\* A dispatched view whose two sides differ, while the buffer has been
\* edited since the invocation read it.
C14_Witness ==
  \E i \in Invocations :
    /\ Dispatched(i)
    /\ inv[i].view.leftText # inv[i].view.rightText
    /\ inv[i].view.rightText = inv[i].newContent
    /\ doc.text # inv[i].newContent

----------------------------------------------------------------------------
\* The candidate set of the History Store Reader.

\* The files the lookup of a script should consider: those of the partitions
\* that can be listed whose name is <baseName>_....json, each with its
\* modification time.
ExpectedCandidates(scriptName) ==
  {[file |-> Path(r.dir, r.name), mtime |-> r.mtime] :
     r \in SnapshotsIn(Partitions \cap listable, scriptName)}

\* The candidates the loaded file builds from the listings ls; a candidate of
\* part_001 is a name, and has no modification time (written 0 here).
BuiltCandidates(scriptName, ls) ==
  IF variant = Part001
  THEN {[file |-> Path(ErrHistory, n), mtime |-> 0] :
          n \in Range(findLatestHistoryCandidates(scriptName, ls))}
  ELSE Range(findLatestOps(scriptName, ls))

\* C15: the candidate set the lookup builds is exactly the set of files, over
\* all partitions that can be listed, whose name starts with <baseName>_ and
\* ends with .json, baseName being the script file name less a trailing .py,
\* each with its modification time attached.
C15_CandidateSet ==
  \A i \in Invocations :
    Looked(i) =>
      \A ls \in Listings :
        BuiltCandidates(inv[i].scriptName, ls) = ExpectedCandidates(inv[i].scriptName)

----------------------------------------------------------------------------
\* The history root and the temporary directory.

\* The extension acts in this step: a command handler of invocation i moves.
Acts(i) == inv'[i] # inv[i]

\* The files invocation i writes in this step.
WrittenNow(i) ==
  {inv'[i].writes[k] : k \in (Len(inv[i].writes) + 1)..Len(inv'[i].writes)}

\* C16: the history root is read-only for the extension: a step of an
\* explain, diff, revert or setup invocation, whatever its mode and outcome,
\* creates, modifies and deletes nothing under the history root, and every
\* file it writes is a file of the temporary directory.
C16_HistoryReadOnly ==
  [][\A i \in Invocations :
       Acts(i) => /\ files' = files
                  /\ listable' = listable
                  /\ WrittenNow(i) \subseteq DOMAIN tmp']_vars

\* A diff invocation has written its files and another command has started
\* the external tool, with snapshots in the history root.
C16_Witness ==
  \E i, j \in Invocations :
    /\ Dispatched(i)
    /\ inv[j].flag # "none" /\ inv[j].spawn # NoSpawn
    /\ files # {}

----------------------------------------------------------------------------
\* The setup command.

\* The processes invocation i started.
StartedBy(i) == {k \in Spawned : procs[k].by = i}

\* The user supplied a non-empty secret to invocation i.
SecretGiven(i) == IsString(inv[i].token) /\ inv[i].token.v # <<>>

\* C17: the setup command starts the external tool only when the user
\* supplied a non-empty secret; it then writes exactly one line, the secret
\* followed by a newline, to the input stream of the process and ends the
\* stream after it; when the prompt is abandoned or left empty, no process is
\* started and the output channel is left as it was.
C17_SetupSecret ==
  /\ [](\A i \in Invocations :
          inv[i].flag = "setup" =>
            /\ StartedBy(i) # {} => SecretGiven(i)
            /\ inv[i].pc = "done" /\ SecretGiven(i) =>
                 /\ Cardinality(StartedBy(i)) = 1
                 /\ \A k \in StartedBy(i) :
                      /\ procs[k].args = <<"setup">>
                      /\ procs[k].stdin =
                           <<[op |-> "write", data |-> inv[i].token.v \o <<LF>>],
                             [op |-> "end", data |-> <<>>]>>
            /\ inv[i].pc = "done" /\ ~SecretGiven(i) =>
                 StartedBy(i) = {} /\ inv[i].info = "setupCancelled")
  /\ [][\A i \in Invocations :
          Acts(i) /\ inv'[i].flag = "setup" /\ inv'[i].spawn = NoSpawn =>
            output' = output /\ procs' = procs]_vars

\* One setup handed its secret to the tool, the tool wrote to the output
\* channel, and another setup was abandoned with that output in the channel.
C17_Witness ==
  \E i, j \in Invocations :
    /\ inv[i].flag = "setup" /\ SecretGiven(i) /\ StartedBy(i) # {}
    /\ inv[j].flag = "setup" /\ inv[j].info = "setupCancelled"
    /\ output # <<>>

----------------------------------------------------------------------------
\* Overlapping invocations.

\* Invocation j has written both of its temporary files.
WroteBoth(j) ==
  /\ inv[j].pc \in {"open", "done"}
  /\ IsString(inv[j].oldContent)
  /\ Len(inv[j].writes) >= 2

\* C18: when side-by-side invocations for one script overlap, every diff
\* view that is dispatched is opened on a pair of temporary files whose
\* contents were both written by one and the same invocation: the old text of
\* one invocation is never shown against the new text of another.
C18_NoMixedPair ==
  \A i \in Invocations :
    Dispatched(i) =>
      \E j \in Invocations :
        /\ WroteBoth(j)
        /\ inv[i].view.leftText = inv[j].oldContent.v
        /\ inv[i].view.rightText = inv[j].newContent

----------------------------------------------------------------------------
\* The shared output channel.

\* The process started by the invocation that cleared the channel last:
\* output.clear() and spawn happen in one step, so it is the last one
\* spawned.
ClearedFor == Len(procs)

\* C19: after an invocation of the external tool has cleared the output
\* channel, every chunk appended until the next clear comes from the process
\* that invocation started: output of an earlier process that is still
\* running never appears after a later invocation cleared the channel.
C19_ChannelOwned ==
  \A n \in 1..Len(output) : output[n].from = ClearedFor

====
